---- MODULE Spec2Model ----
(***************************************************************************)
(* A model of TaskGroup (packages/core/src/groups/taskGroup.ts): one group *)
(* of tasks kept in a Redis keyspace.  The store keys of the group are the *)
(* variables; every public method of TaskGroup is an action.               *)
(*                                                                         *)
(* Spec      : the methods run one after the other (each call completes    *)
(*             before the next starts).                                    *)
(* SpecLoop  : startProcessing, a loop whose iterations interleave with    *)
(*             addTask and completeTask.                                   *)
(* SpecFifo  : addTask and getNextTask with the history of both recorded.  *)
(* SpecClaim : concurrent getNextTask calls, one store command per step,   *)
(*             over connections with Redis WATCH/MULTI/EXEC semantics.     *)
(* SpecAdd   : concurrent addTask calls, one store command per step, with  *)
(*             removeTask, getNextTask and completeTask in between.        *)
(* Further specifications (SpecUpdate, SpecStats, SpecSnapshot, SpecReject, *)
(* SpecLive, SpecKeys, SpecPool, SpecRR, SpecPriority) are introduced      *)
(* where they are defined.                                                 *)
(***************************************************************************)
EXTENDS Integers, Sequences, FiniteSets, TLC

\* ------------------------------------------------------------------ bounds
MaxTasks == 2
MaxClock == 1
MaxHistory == 3
MaxCallers == 2
MaxConns == 2
MaxGroups == 3
MaxQueue == 3

Tasks == 1..MaxTasks            \* task ids; Redis orders equal scores by member
Callers == 1..MaxCallers        \* concurrent getNextTask calls
Conns == 1..MaxConns            \* Redis connections of the callers
Groups == 1..MaxGroups          \* the groups of the scheduler, in name order

\* ------------------------------------------------------------------- state
VARIABLES
    membership,   \* group:{g}:tasks       set of ids
    order,        \* group:{g}:order       sorted set: id -> score
    processing,   \* group:{g}:processing  set of ids
    state,        \* group:{g}:state       hash: id -> status
    options,      \* group:{g}:tasks:options  ids with an entry
    data,         \* group:{g}:tasks:data     ids with an entry
    method,       \* group:{g}:tasks:method   ids with an entry
    stats,        \* group:{g}:tasks:stats    cached GroupStats, or NoStats
    clock,        \* Date.now()
    looping,      \* a startProcessing loop is running
    ret,          \* what the last completed call returned
    addSeq,       \* history: ids in the order their addTask completed
    claimSeq,     \* history: ids in the order getNextTask returned them
    conn,         \* caller -> the connection it issues its commands on
    pc,           \* caller -> its position in the call it runs
    head,         \* caller -> nextTask (tasks[0] of its ZRANGE), or its addTask's id
    attempt,      \* caller -> the attempt of retryWithBackoff it is in
    got,          \* caller -> what getNextTask returned to it
    watched,      \* connection -> it WATCHes the order key
    dirty,        \* connection -> the watched key changed since WATCH
    registry,     \* QueueManager: task id -> state of its task record
    newStatus,    \* caller -> the status argument of its updateTaskStatus
    tasks,        \* caller -> the HGETALL of the state key its updateStats holds
    groupName,    \* the groupName the TaskGroup was constructed with
    written,      \* the store keys the group has written so far
    attempts,     \* worker pool: task id -> attempts of its task record
    failedEvents, \* worker pool: task id -> task_failed events published
    delays,       \* worker pool: task id -> the backoffs of its requeues
    maxRetries,   \* worker pool: options.maxRetries of the tasks
    queues,       \* scheduler: group -> tasks waiting in its order index
    weight,       \* scheduler: groupPriorities
    rrCursor,     \* scheduler: the group served last (ROUND_ROBIN)
    credit,       \* scheduler: group -> running credit (PRIORITY)
    done          \* scheduler: the tasks in the order they completed

store == <<membership, order, processing, state, options, data, method, stats>>
hist == <<addSeq, claimSeq>>
calls == <<conn, pc, head, attempt, got, watched, dirty>>
update == <<registry, newStatus, tasks>>
keys == <<groupName, written>>
pool == <<attempts, failedEvents, delays, maxRetries>>
sched == <<queues, weight, rrCursor, credit, done>>
aux == <<update, keys, pool, sched>>
vars == <<store, clock, looping, ret, hist, calls, aux>>

\* TaskStatus (types/enums): the state names of the wire contract
WAITING == "waiting"
ACTIVE == "active"
COMPLETED == "completed"
FAILED == "failed"
DELAYED == "delayed"
PAUSED == "paused"
UNKNOWN == "unknown"
TaskStatus == {WAITING, ACTIVE, COMPLETED, FAILED, DELAYED, PAUSED, UNKNOWN}

\* the statuses callers pass to updateTaskStatus here; the group treats
\* DELAYED and UNKNOWN as it treats WAITING (stored, counted in total only)
StatusInputs == {WAITING, ACTIVE, COMPLETED, FAILED, PAUSED}

\* null, where a task id is expected (ids are 1..MaxTasks)
NoTask == 0

\* what a call gave back: nothing, null, a task id, a boolean, stats, or a throw
Void == [kind |-> "void", id |-> NoTask]
RetNull == [kind |-> "null", id |-> NoTask]
Thrown == [kind |-> "error", id |-> NoTask]
RetTask(id) == [kind |-> "task", id |-> id]
RetBool(b) == [kind |-> IF b THEN "true" ELSE "false", id |-> NoTask]
RetStats == [kind |-> "stats", id |-> NoTask]

\* HGETALL of the stats key before any HMSET: no fields
NoStats == [total |-> -1, active |-> 0, completed |-> 0, failed |-> 0, paused |-> 0]

\* --------------------------------------------------------- store commands
\* HSET key field value
Hset(h, k, v) == [x \in DOMAIN h \cup {k} |-> IF x = k THEN v ELSE h[x]]

\* HDEL key field / ZREM key member
Hdel(h, k) == [x \in DOMAIN h \ {k} |-> h[x]]

\* ZRANGE key 0 0: the member with the lowest score; members of equal score
\* are ordered by the member itself
Before(ord, a, b) == ord[a] < ord[b] \/ (ord[a] = ord[b] /\ a < b)

Zrange00(ord) ==
    IF DOMAIN ord = {} THEN NoTask
    ELSE CHOOSE a \in DOMAIN ord : \A b \in DOMAIN ord \ {a} : Before(ord, a, b)

\* the whole sorted set, lowest first (ZRANGE key 0 -1)
RECURSIVE ZrangeAll(_)
ZrangeAll(ord) ==
    IF DOMAIN ord = {} THEN <<>>
    ELSE <<Zrange00(ord)>> \o ZrangeAll(Hdel(ord, Zrange00(ord)))

\* A write that changes the order key flags every connection WATCHing it
Touch(changed) ==
    dirty' = [k \in Conns |-> dirty[k] \/ (watched[k] /\ changed)]

callers == <<conn, pc, head, attempt, got, watched>>

\* ------------------------------------------------------------ updateStats
\* (mutant) a switch without its break statements: a status is counted in
\* its own counter and in every counter below it
ComputeStatsFallThrough(st) ==
    [total |-> Cardinality(DOMAIN st),
     active |-> Cardinality({id \in DOMAIN st : st[id] = ACTIVE}),
     completed |-> Cardinality({id \in DOMAIN st : st[id] \in {ACTIVE, COMPLETED}}),
     failed |-> Cardinality({id \in DOMAIN st : st[id] \in {ACTIVE, COMPLETED, FAILED}}),
     paused |-> Cardinality({id \in DOMAIN st : st[id] \in {ACTIVE, COMPLETED, FAILED, PAUSED}})]

Count(st, s) == Cardinality({id \in DOMAIN st : st[id] = s})

ComputeStats(st) ==
    [total |-> Cardinality(DOMAIN st),
     active |-> Count(st, ACTIVE),
     completed |-> Count(st, COMPLETED),
     failed |-> Count(st, FAILED),
     paused |-> Count(st, PAUSED)]

\* ---------------------------------------------------------------- Init
\* the state of the collaborators of the group, before any of them is used
InitAux ==
    /\ registry = <<>>
    /\ newStatus = [c \in Callers |-> WAITING]
    /\ tasks = [c \in Callers |-> <<>>]
    /\ groupName = "g"
    /\ written = {}
    /\ attempts = <<>>
    /\ failedEvents = <<>>
    /\ delays = <<>>
    /\ maxRetries = 0
    /\ queues = <<>>
    /\ weight = <<>>
    /\ rrCursor = 0
    /\ credit = <<>>
    /\ done = <<>>

\* the keys of a new group, and callers that share one connection
InitGroup ==
    /\ membership = {}
    /\ order = <<>>
    /\ processing = {}
    /\ state = <<>>
    /\ options = {}
    /\ data = {}
    /\ method = {}
    /\ stats = NoStats
    /\ clock = 0
    /\ looping = FALSE
    /\ ret = Void
    /\ addSeq = <<>>
    /\ claimSeq = <<>>
    /\ conn = [c \in Callers |-> 1]
    /\ pc = [c \in Callers |-> "idle"]
    /\ head = [c \in Callers |-> NoTask]
    /\ attempt = [c \in Callers |-> 0]
    /\ got = [c \in Callers |-> Void]
    /\ watched = [k \in Conns |-> FALSE]
    /\ dirty = [k \in Conns |-> FALSE]

Init ==
    /\ InitGroup
    /\ InitAux

\* Date.now() advances
Tick ==
    /\ clock < MaxClock
    /\ clock' = clock + 1
    /\ UNCHANGED <<store, looping, ret, hist, aux, calls>>

\* ------------------------------------------------------------ the methods
\* addTask(methodName, taskOptions, taskData) with an id and a queue name
\* (mutant) an addTask that does not call updateStats
AddTaskStoreStatsStale(id) ==
    /\ membership' = membership \cup {id}
    /\ order' = Hset(order, id, clock)
    /\ state' = Hset(state, id, WAITING)
    /\ options' = options \cup {id}
    /\ data' = data \cup {id}
    /\ method' = method \cup {id}
    /\ UNCHANGED <<stats, processing>>

AddTaskStore(id) ==
    /\ membership' = membership \cup {id}
    /\ order' = Hset(order, id, clock)
    /\ state' = Hset(state, id, WAITING)
    /\ options' = options \cup {id}
    /\ data' = data \cup {id}
    /\ method' = method \cup {id}
    /\ stats' = ComputeStats(state')
    /\ UNCHANGED processing

AddTaskCall(id) ==
    /\ AddTaskStore(id)
    /\ Touch(order' # order)
    /\ ret' = Void
    /\ UNCHANGED <<clock, looping, callers>>

AddTask(id) ==
    /\ AddTaskCall(id)
    /\ UNCHANGED <<hist, aux, aux>>

\* removeTask(taskId): SREM, HDEL, ZREM, SREM; the options, data, method and
\* stats keys are not written
RemoveTask(id) ==
    /\ membership' = membership \ {id}
    /\ state' = Hdel(state, id)
    /\ order' = Hdel(order, id)
    /\ processing' = processing \ {id}
    /\ Touch(order' # order)
    /\ ret' = Void
    /\ UNCHANGED <<options, data, method, stats, clock, looping, hist, aux, callers>>

\* updateTaskStatus(taskId, status) on a member: HSET state, then updateStats
\* (the registry record kept by the QueueManager is outside the group's keys)
SetStatus(st, ids, status) ==
    [x \in DOMAIN st \cup ids |-> IF x \in ids THEN status ELSE st[x]]

UpdateTaskStatus(id, status) ==
    /\ IF id \in membership
       THEN /\ state' = SetStatus(state, {id}, status)
            /\ stats' = ComputeStats(state')
            /\ ret' = Void
       ELSE /\ ret' = Thrown
            /\ UNCHANGED <<state, stats>>
    /\ UNCHANGED <<membership, order, processing, options, data, method>>
    /\ UNCHANGED <<clock, looping, hist, aux, calls>>

\* getStats(): the cached record when the stats key has fields, else
\* updateStats() and read again
GetStats ==
    /\ stats' = IF stats # NoStats THEN stats ELSE ComputeStats(state)
    /\ ret' = RetStats
    /\ UNCHANGED <<membership, order, processing, state, options, data, method>>
    /\ UNCHANGED <<clock, looping, hist, aux, calls>>

\* getTaskOptionsAndData(taskId) is not null
GetTaskOptionsAndData(id) == id \in options /\ id \in data

\* getNextTask() with nobody else at the store: ZRANGE 0 0, then ZREM + SADD
\* in one MULTI/EXEC, then getTaskOptionsAndData
NextTask == Zrange00(order)

GetNextTaskResult ==
    IF NextTask = NoTask THEN RetNull
    ELSE IF GetTaskOptionsAndData(NextTask) THEN RetTask(NextTask)
    ELSE RetNull

\* (mutant) a transaction that queues the SADD without the ZREM
ExecStoreSaddOnly(nextTask) ==
    /\ order' = order
    /\ processing' = processing \cup {nextTask}

\* MULTI, ZREM order nextTask, SADD processing nextTask, EXEC
ExecStore(nextTask) ==
    /\ order' = Hdel(order, nextTask)
    /\ processing' = processing \cup {nextTask}

\* (mutant) a getNextTask that queues ZREM and SADD without looking at tasks.length
GetNextTaskStoreUnguarded ==
    /\ ExecStore(NextTask)
    /\ Touch(order' # order)

GetNextTaskStore ==
    /\ IF NextTask = NoTask
       THEN UNCHANGED <<order, processing>>
       ELSE ExecStore(NextTask)
    /\ Touch(order' # order)

GetNextTaskCall ==
    /\ GetNextTaskStore
    /\ ret' = GetNextTaskResult
    /\ UNCHANGED <<membership, state, options, data, method, stats>>
    /\ UNCHANGED <<clock, looping, callers>>

GetNextTask ==
    /\ GetNextTaskCall
    /\ UNCHANGED <<hist, aux, aux>>

\* processNextTask(): getNextTask(), look the task up in the registry
\* (found or not), then updateTaskStatus(id, ACTIVE)
ProcessNextTaskBody(found) ==
    /\ GetNextTaskStore
    /\ IF GetNextTaskResult.kind = "task" /\ found
       THEN IF NextTask \in membership
            THEN /\ state' = SetStatus(state, {NextTask}, ACTIVE)
                 /\ stats' = ComputeStats(state')
                 /\ ret' = Void
            ELSE /\ ret' = Thrown
                 /\ UNCHANGED <<state, stats>>
       ELSE /\ ret' = Void
            /\ UNCHANGED <<state, stats>>
    /\ UNCHANGED <<membership, options, data, method>>
    /\ UNCHANGED <<clock, hist, aux, callers>>

ProcessNextTask(found) ==
    /\ ProcessNextTaskBody(found)
    /\ UNCHANGED looping

\* hasAvailableTasks(): more members than tasks in processing
HasAvailableTasksResult == Cardinality(membership) > Cardinality(processing)

HasAvailableTasks ==
    /\ ret' = RetBool(HasAvailableTasksResult)
    /\ UNCHANGED <<store, clock, looping, hist, aux, calls>>

\* startProcessing(): while (hasAvailableTasks()) processNextTask()
StartProcessing ==
    /\ ~looping
    /\ looping' = TRUE
    /\ UNCHANGED <<store, clock, ret, hist, aux, calls>>

StartProcessingIterate(found) ==
    /\ looping
    /\ HasAvailableTasksResult
    /\ ProcessNextTaskBody(found)
    /\ looping' = (ret' # Thrown)

StartProcessingExit ==
    /\ looping
    /\ ~HasAvailableTasksResult
    /\ looping' = FALSE
    /\ ret' = Void
    /\ UNCHANGED <<store, clock, hist, aux, calls>>

\* pauseAll() / resumeAll(): updateTaskStatus(id, status) for every id of
\* getTasks()
\* (mutant) a bulk update that also takes the ids out of the order index
UpdateAllDequeue(taskIds, status) ==
    /\ state' = SetStatus(state, taskIds, status)
    /\ stats' = IF taskIds = {} THEN stats ELSE ComputeStats(state')
    /\ ret' = Void
    /\ order' = [x \in DOMAIN order \ taskIds |-> order[x]]
    /\ UNCHANGED <<membership, processing, options, data, method>>
    /\ UNCHANGED <<clock, looping, hist, aux, calls>>

UpdateAll(taskIds, status) ==
    /\ state' = SetStatus(state, taskIds, status)
    /\ stats' = IF taskIds = {} THEN stats ELSE ComputeStats(state')
    /\ ret' = Void
    /\ UNCHANGED <<membership, order, processing, options, data, method>>
    /\ UNCHANGED <<clock, looping, hist, aux, calls>>

PauseAll ==
    LET taskIds == membership
    IN  UpdateAll(taskIds, PAUSED)

ResumeAll ==
    LET taskIds == membership
    IN  UpdateAll(taskIds, ACTIVE)

\* completeTask(taskId): SREM processing and updateTaskStatus(id, COMPLETED),
\* both started before either is awaited
\* (mutant) a completeTask that puts the id back into the order index
CompleteTaskRequeue(id) ==
    /\ processing' = processing \ {id}
    /\ IF id \in membership
       THEN /\ state' = SetStatus(state, {id}, COMPLETED)
            /\ stats' = ComputeStats(state')
            /\ ret' = Void
       ELSE /\ ret' = Thrown
            /\ UNCHANGED <<state, stats>>
    /\ order' = Hset(order, id, clock)
    /\ UNCHANGED <<membership, options, data, method>>
    /\ UNCHANGED <<clock, looping, hist, aux, calls>>

CompleteTask(id) ==
    /\ processing' = processing \ {id}
    /\ IF id \in membership
       THEN /\ state' = SetStatus(state, {id}, COMPLETED)
            /\ stats' = ComputeStats(state')
            /\ ret' = Void
       ELSE /\ ret' = Thrown
            /\ UNCHANGED <<state, stats>>
    /\ UNCHANGED <<membership, order, options, data, method>>
    /\ UNCHANGED <<clock, looping, hist, aux, calls>>

\* ------------------------------------------------------------------ Spec
Next ==
    \/ Tick
    \/ \E id \in Tasks : AddTask(id)
    \/ \E id \in Tasks : RemoveTask(id)
    \/ \E id \in Tasks, status \in StatusInputs : UpdateTaskStatus(id, status)
    \/ GetStats
    \/ GetNextTask
    \/ \E found \in BOOLEAN : ProcessNextTask(found)
    \/ HasAvailableTasks
    \/ PauseAll
    \/ ResumeAll
    \/ \E id \in Tasks : CompleteTask(id)

Spec == Init /\ [][Next]_vars

\* -------------------------------------------------------------- SpecLoop
\* a startProcessing() loop, with tasks added and completed meanwhile
NextLoop ==
    \/ \E id \in Tasks : AddTask(id)
    \/ \E id \in Tasks : CompleteTask(id)
    \/ StartProcessing
    \/ \E found \in BOOLEAN : StartProcessingIterate(found)
    \/ StartProcessingExit

SpecLoop == Init /\ [][NextLoop]_vars

\* -------------------------------------------------------------- SpecFifo
\* addTask and getNextTask, with the order of the completed addTask calls and
\* of the ids getNextTask returned
AddTaskRecorded(id) ==
    /\ Len(addSeq) < MaxHistory
    /\ AddTaskCall(id)
    /\ addSeq' = Append(addSeq, id)
    /\ UNCHANGED <<claimSeq, aux>>

GetNextTaskRecorded ==
    /\ GetNextTaskCall
    /\ claimSeq' = IF ret'.kind = "task" THEN Append(claimSeq, ret'.id) ELSE claimSeq
    /\ UNCHANGED <<addSeq, aux>>

NextFifo ==
    \/ Tick
    \/ \E id \in Tasks : AddTaskRecorded(id)
    \/ GetNextTaskRecorded

SpecFifo == Init /\ [][NextFifo]_vars

\* ------------------------------------------------------------- SpecClaim
\* Concurrent getNextTask() calls, one store command per step.  A caller
\* issues its commands on its connection; callers of one TaskGroup instance
\* share the connection.  WATCH state belongs to the connection: EXEC and
\* UNWATCH forget every watched key of the connection, and EXEC aborts only
\* when a key the connection still watches was changed.

\* retryWithBackoff(fn, 3, 100): the number of attempts
MaxRetries == 3

\* retryWithBackoff after a throw of attempt n: run fn again, or give up
RetryAgain(n) == n < MaxRetries

RetryExhausted == RetNull

InitClaim ==
    /\ membership = {}
    /\ order = <<>>
    /\ processing = {}
    /\ state = <<>>
    /\ options = {}
    /\ data = {}
    /\ method = {}
    /\ stats = NoStats
    /\ clock = 0
    /\ looping = FALSE
    /\ ret = Void
    /\ addSeq = <<>>
    /\ claimSeq = <<>>
    /\ conn \in [Callers -> Conns]
    /\ pc = [c \in Callers |-> "idle"]
    /\ head = [c \in Callers |-> NoTask]
    /\ attempt = [c \in Callers |-> 0]
    /\ got = [c \in Callers |-> Void]
    /\ watched = [k \in Conns |-> FALSE]
    /\ dirty = [k \in Conns |-> FALSE]
    /\ InitAux

\* a producer's addTask of an id that was not added before
Produce(id) ==
    /\ id \notin membership
    /\ AddTask(id)

\* getNextTask() is called: retryWithBackoff starts the first attempt
Call(c) ==
    /\ pc[c] = "idle"
    /\ pc' = [pc EXCEPT ![c] = "watch"]
    /\ attempt' = [attempt EXCEPT ![c] = 1]
    /\ UNCHANGED <<store, clock, looping, ret, hist, aux, conn, head, got, watched, dirty>>

\* await this.redis.watch(this.processingOrderKey)
Watch(c) ==
    /\ pc[c] = "watch"
    /\ watched' = [watched EXCEPT ![conn[c]] = TRUE]
    /\ pc' = [pc EXCEPT ![c] = "zrange"]
    /\ UNCHANGED <<store, clock, looping, ret, hist, aux, conn, head, attempt, got, dirty>>

\* tasks = await this.redis.zrange(this.processingOrderKey, 0, 0)
Zrange(c) ==
    /\ pc[c] = "zrange"
    /\ head' = [head EXCEPT ![c] = Zrange00(order)]
    /\ pc' = [pc EXCEPT ![c] = IF head'[c] = NoTask THEN "unwatch" ELSE "exec"]
    /\ UNCHANGED <<store, clock, looping, ret, hist, aux, conn, attempt, got, watched, dirty>>

\* tasks.length === 0: await this.redis.unwatch(); return null
Unwatch(c) ==
    /\ pc[c] = "unwatch"
    /\ watched' = [watched EXCEPT ![conn[c]] = FALSE]
    /\ dirty' = [dirty EXCEPT ![conn[c]] = FALSE]
    /\ got' = [got EXCEPT ![c] = RetNull]
    /\ pc' = [pc EXCEPT ![c] = "done"]
    /\ UNCHANGED <<store, clock, looping, ret, hist, aux, conn, head, attempt>>

\* (mutant) an aborted EXEC that applies the queued ZREM and SADD all the same
ExecQueuedAnyway(c) ==
    /\ pc[c] = "exec"
    /\ watched' = [watched EXCEPT ![conn[c]] = FALSE]
    /\ IF dirty[conn[c]]
       THEN /\ dirty' = [dirty EXCEPT ![conn[c]] = FALSE]
            /\ IF RetryAgain(attempt[c])
               THEN /\ attempt' = [attempt EXCEPT ![c] = attempt[c] + 1]
                    /\ pc' = [pc EXCEPT ![c] = "watch"]
                    /\ got' = got
               ELSE /\ got' = [got EXCEPT ![c] = RetryExhausted]
                    /\ pc' = [pc EXCEPT ![c] = "done"]
                    /\ attempt' = attempt
            /\ ExecStore(head[c])
       ELSE /\ ExecStore(head[c])
            /\ dirty' = [k \in Conns |->
                            k # conn[c] /\ (dirty[k] \/ (watched[k] /\ order' # order))]
            /\ pc' = [pc EXCEPT ![c] = "options"]
            /\ UNCHANGED <<attempt, got>>
    /\ UNCHANGED <<membership, state, options, data, method, stats>>
    /\ UNCHANGED <<clock, looping, ret, hist, aux, conn, head>>

\* results = await multi.exec(): null when the connection's watched key was
\* changed, which throws and ends the attempt; else ZREM and SADD take effect
Exec(c) ==
    /\ pc[c] = "exec"
    /\ watched' = [watched EXCEPT ![conn[c]] = FALSE]
    /\ IF dirty[conn[c]]
       THEN /\ dirty' = [dirty EXCEPT ![conn[c]] = FALSE]
            /\ IF RetryAgain(attempt[c])
               THEN /\ attempt' = [attempt EXCEPT ![c] = attempt[c] + 1]
                    /\ pc' = [pc EXCEPT ![c] = "watch"]
                    /\ got' = got
               ELSE /\ got' = [got EXCEPT ![c] = RetryExhausted]
                    /\ pc' = [pc EXCEPT ![c] = "done"]
                    /\ attempt' = attempt
            /\ UNCHANGED <<order, processing>>
       ELSE /\ ExecStore(head[c])
            /\ dirty' = [k \in Conns |->
                            k # conn[c] /\ (dirty[k] \/ (watched[k] /\ order' # order))]
            /\ pc' = [pc EXCEPT ![c] = "options"]
            /\ UNCHANGED <<attempt, got>>
    /\ UNCHANGED <<membership, state, options, data, method, stats>>
    /\ UNCHANGED <<clock, looping, ret, hist, aux, conn, head>>

\* taskOptions = await this.getTaskOptionsAndData(nextTask); null or
\* [nextTask, options.queue] is returned
Options(c) ==
    /\ pc[c] = "options"
    /\ got' = [got EXCEPT ![c] =
                  IF GetTaskOptionsAndData(head[c]) THEN RetTask(head[c]) ELSE RetNull]
    /\ pc' = [pc EXCEPT ![c] = "done"]
    /\ UNCHANGED <<store, clock, looping, ret, hist, aux, conn, head, attempt, watched, dirty>>

NextClaim ==
    \/ \E id \in Tasks : Produce(id)
    \/ \E c \in Callers : Call(c)
    \/ \E c \in Callers : Watch(c)
    \/ \E c \in Callers : Zrange(c)
    \/ \E c \in Callers : Unwatch(c)
    \/ \E c \in Callers : Exec(c)
    \/ \E c \in Callers : Options(c)

SpecClaim == InitClaim /\ [][NextClaim]_vars

\* -------------------------------------------------------------- SpecLive
\* Claimers that call getNextTask() again and again, each scheduled fairly,
\* while producers add each task once.

\* Which connection is called 1, 2, ... does not matter to the store: the
\* first claimer is on connection 1 and every other claimer shares a
\* connection with an earlier one or is on the next unused one.
InitLive ==
    /\ InitClaim
    /\ conn[1] = 1
    /\ \A c \in Callers \ {1} : \E d \in 1..(c - 1) : conn[c] <= conn[d] + 1

\* getNextTask() has returned to the claimer; its locals are gone
Return(c) ==
    /\ pc[c] = "done"
    /\ pc' = [pc EXCEPT ![c] = "idle"]
    /\ head' = [head EXCEPT ![c] = NoTask]
    /\ attempt' = [attempt EXCEPT ![c] = 0]
    /\ got' = [got EXCEPT ![c] = Void]
    /\ UNCHANGED <<store, clock, looping, ret, hist, aux, conn, watched, dirty>>

\* the steps of claimer c
Claimer(c) ==
    \/ Call(c)
    \/ Watch(c)
    \/ Zrange(c)
    \/ Unwatch(c)
    \/ Exec(c)
    \/ Options(c)
    \/ Return(c)

NextLive ==
    \/ \E id \in Tasks : Produce(id)
    \/ \E c \in Callers : Claimer(c)

SpecLive ==
    /\ InitLive
    /\ [][NextLive]_vars
    /\ \A c \in Callers : WF_vars(Claimer(c))

\* --------------------------------------------------------------- SpecAdd
\* addTask() calls run one store command per step, each caller on an id of
\* its own choice, while removeTask, getNextTask and completeTask run between
\* the commands.  (The QueueManager record addTask updates is outside the
\* group's keys.)

\* addTask is called with an id and a queue name: await redis.sadd(groupKey)
AddTaskSadd(c, id) ==
    /\ pc[c] = "idle"
    /\ membership' = membership \cup {id}
    /\ head' = [head EXCEPT ![c] = id]
    /\ pc' = [pc EXCEPT ![c] = "zadd"]
    /\ UNCHANGED <<order, processing, state, options, data, method, stats>>
    /\ UNCHANGED <<clock, looping, ret, hist, aux, conn, attempt, got, watched, dirty>>

\* orderScore = Date.now(); await redis.zadd(processingOrderKey, orderScore)
AddTaskZadd(c) ==
    /\ pc[c] = "zadd"
    /\ order' = Hset(order, head[c], clock)
    /\ Touch(order' # order)
    /\ pc' = [pc EXCEPT ![c] = "hsetState"]
    /\ UNCHANGED <<membership, processing, state, options, data, method, stats>>
    /\ UNCHANGED <<clock, looping, ret, hist, aux, conn, head, attempt, got, watched>>

\* await redis.hset(stateKey, taskId, TaskStatus.WAITING)
AddTaskHsetState(c) ==
    /\ pc[c] = "hsetState"
    /\ state' = Hset(state, head[c], WAITING)
    /\ pc' = [pc EXCEPT ![c] = "hsetOptions"]
    /\ UNCHANGED <<membership, order, processing, options, data, method, stats>>
    /\ UNCHANGED <<clock, looping, ret, hist, aux, conn, head, attempt, got, watched, dirty>>

\* await redis.hset(`${groupKey}:options`, taskId, ...)
AddTaskHsetOptions(c) ==
    /\ pc[c] = "hsetOptions"
    /\ options' = options \cup {head[c]}
    /\ pc' = [pc EXCEPT ![c] = "hsetData"]
    /\ UNCHANGED <<membership, order, processing, state, data, method, stats>>
    /\ UNCHANGED <<clock, looping, ret, hist, aux, conn, head, attempt, got, watched, dirty>>

\* await redis.hset(`${groupKey}:data`, taskId, ...)
AddTaskHsetData(c) ==
    /\ pc[c] = "hsetData"
    /\ data' = data \cup {head[c]}
    /\ pc' = [pc EXCEPT ![c] = "hsetMethod"]
    /\ UNCHANGED <<membership, order, processing, state, options, method, stats>>
    /\ UNCHANGED <<clock, looping, ret, hist, aux, conn, head, attempt, got, watched, dirty>>

\* await redis.hset(`${groupKey}:method`, taskId, methodName)
AddTaskHsetMethod(c) ==
    /\ pc[c] = "hsetMethod"
    /\ method' = method \cup {head[c]}
    /\ pc' = [pc EXCEPT ![c] = "updateStats"]
    /\ UNCHANGED <<membership, order, processing, state, options, data, stats>>
    /\ UNCHANGED <<clock, looping, ret, hist, aux, conn, head, attempt, got, watched, dirty>>

\* await this.updateStats(); addTask returns
AddTaskUpdateStats(c) ==
    /\ pc[c] = "updateStats"
    /\ stats' = ComputeStats(state)
    /\ ret' = Void
    /\ head' = [head EXCEPT ![c] = NoTask]
    /\ pc' = [pc EXCEPT ![c] = "idle"]
    /\ UNCHANGED <<membership, order, processing, state, options, data, method>>
    /\ UNCHANGED <<clock, looping, hist, aux, conn, attempt, got, watched, dirty>>

NextAdd ==
    \/ \E c \in Callers, id \in Tasks : AddTaskSadd(c, id)
    \/ \E c \in Callers : AddTaskZadd(c)
    \/ \E c \in Callers : AddTaskHsetState(c)
    \/ \E c \in Callers : AddTaskHsetOptions(c)
    \/ \E c \in Callers : AddTaskHsetData(c)
    \/ \E c \in Callers : AddTaskHsetMethod(c)
    \/ \E c \in Callers : AddTaskUpdateStats(c)
    \/ \E id \in Tasks : RemoveTask(id)
    \/ GetNextTask
    \/ \E id \in Tasks : CompleteTask(id)

SpecAdd == Init /\ [][NextAdd]_vars

\* ------------------------------------------------------------ SpecUpdate
\* updateTaskStatus() calls run one await per step, while addTask and
\* removeTask run between the steps.  The group is connected to a
\* QueueManager that has a record of every task, or to none.

\* mapTaskStatusToState(status); TaskState.X carries the name of TaskStatus.X
MapTaskStatusToState(status) ==
    CASE status = ACTIVE -> ACTIVE
      [] status = COMPLETED -> COMPLETED
      [] status = FAILED -> FAILED
      [] status = WAITING -> WAITING
      [] status = DELAYED -> DELAYED
      [] OTHER -> UNKNOWN

InitUpdate ==
    /\ InitGroup
    /\ registry \in {[id \in ids |-> WAITING] : ids \in {{}, Tasks}}
    /\ newStatus = [c \in Callers |-> WAITING]
    /\ tasks = [c \in Callers |-> <<>>]
    /\ groupName = "g"
    /\ written = {}
    /\ attempts = <<>>
    /\ failedEvents = <<>>
    /\ delays = <<>>
    /\ maxRetries = 0
    /\ queues = <<>>
    /\ weight = <<>>
    /\ rrCursor = 0
    /\ credit = <<>>
    /\ done = <<>>

\* addTask() of an id that is not a member: the keys of the group, then
\* task.state = TaskState.WAITING in the record queueManager.getTask finds
AddTaskConnected(id) ==
    /\ id \notin membership
    /\ AddTaskCall(id)
    /\ registry' = [x \in DOMAIN registry |-> IF x = id THEN WAITING ELSE registry[x]]
    /\ UNCHANGED <<hist, newStatus, tasks, keys, pool, sched>>

\* updateTaskStatus(taskId, status), called while no other call of it is in
\* progress: exists = await redis.sismember(groupKey, taskId); throw when it
\* is not a member
UpdateSismember(c, id, status) ==
    /\ \A other \in Callers : pc[other] = "idle"
    /\ IF id \in membership
       THEN /\ pc' = [pc EXCEPT ![c] = "hset"]
            /\ head' = [head EXCEPT ![c] = id]
            /\ newStatus' = [newStatus EXCEPT ![c] = status]
            /\ got' = got
       ELSE /\ got' = [got EXCEPT ![c] = Thrown]
            /\ UNCHANGED <<pc, head, newStatus>>
    /\ UNCHANGED <<store, clock, looping, ret, hist, conn, attempt, watched, dirty>>
    /\ UNCHANGED <<registry, tasks, keys, pool, sched>>

\* await redis.hset(stateKey, taskId, status)
UpdateHset(c) ==
    /\ pc[c] = "hset"
    /\ state' = SetStatus(state, {head[c]}, newStatus[c])
    /\ pc' = [pc EXCEPT ![c] = "registry"]
    /\ UNCHANGED <<membership, order, processing, options, data, method, stats>>
    /\ UNCHANGED <<clock, looping, ret, hist, aux, conn, head, attempt, got, watched, dirty>>

\* task = await queueManager.getTask(taskId); if (task) task.state =
\* mapTaskStatusToState(status); await queueManager.updateTask(task)
UpdateRegistry(c) ==
    /\ pc[c] = "registry"
    /\ registry' = [x \in DOMAIN registry |->
                       IF x = head[c] THEN MapTaskStatusToState(newStatus[c])
                       ELSE registry[x]]
    /\ pc' = [pc EXCEPT ![c] = "updateStats"]
    /\ UNCHANGED <<store, clock, looping, ret, hist, conn, head, attempt, got, watched, dirty>>
    /\ UNCHANGED <<newStatus, tasks, keys, pool, sched>>

\* await this.updateStats(); updateTaskStatus returns and its locals are gone
UpdateStatsStep(c) ==
    /\ pc[c] = "updateStats"
    /\ stats' = ComputeStats(state)
    /\ got' = [got EXCEPT ![c] = Void]
    /\ pc' = [pc EXCEPT ![c] = "idle"]
    /\ head' = [head EXCEPT ![c] = NoTask]
    /\ newStatus' = [newStatus EXCEPT ![c] = WAITING]
    /\ UNCHANGED <<membership, order, processing, state, options, data, method>>
    /\ UNCHANGED <<clock, looping, ret, hist, conn, attempt, watched, dirty>>
    /\ UNCHANGED <<registry, tasks, keys, pool, sched>>

NextUpdate ==
    \/ \E id \in Tasks : AddTaskConnected(id)
    \/ \E id \in Tasks : RemoveTask(id)
    \/ \E c \in Callers, id \in Tasks, status \in TaskStatus : UpdateSismember(c, id, status)
    \/ \E c \in Callers : UpdateHset(c)
    \/ \E c \in Callers : UpdateRegistry(c)
    \/ \E c \in Callers : UpdateStatsStep(c)

SpecUpdate == InitUpdate /\ [][NextUpdate]_vars

\* ------------------------------------------------------------- SpecStats
\* The updateTaskStatus() calls that pauseAll() and resumeAll() start with
\* Promise.all run together, one await per step; updateStats() is an
\* HGETALL of the state key and, in a later round trip, an HMSET of the
\* counters it computed from that reply.  Tasks are added while no call runs.

\* the statuses pauseAll() and resumeAll() pass
BulkStatuses == {PAUSED, ACTIVE}

\* addTask() of a new id, while no updateTaskStatus is in progress
AddTaskQuiet(id) ==
    /\ \A c \in Callers : pc[c] = "idle"
    /\ id \notin membership
    /\ AddTask(id)

\* updateTaskStatus(taskId, status): exists = await redis.sismember(...)
BulkSismember(c, id, status) ==
    /\ pc[c] = "idle"
    /\ IF id \in membership
       THEN /\ pc' = [pc EXCEPT ![c] = "hset"]
            /\ head' = [head EXCEPT ![c] = id]
            /\ newStatus' = [newStatus EXCEPT ![c] = status]
            /\ got' = got
       ELSE /\ got' = [got EXCEPT ![c] = Thrown]
            /\ UNCHANGED <<pc, head, newStatus>>
    /\ UNCHANGED <<store, clock, looping, ret, hist, conn, attempt, watched, dirty>>
    /\ UNCHANGED <<registry, tasks, keys, pool, sched>>

\* updateStats(): tasks = await redis.hgetall(stateKey)
UpdateStatsHgetall(c) ==
    /\ pc[c] = "updateStats"
    /\ tasks' = [tasks EXCEPT ![c] = state]
    /\ pc' = [pc EXCEPT ![c] = "hmset"]
    /\ UNCHANGED <<store, clock, looping, ret, hist, conn, head, attempt, got, watched, dirty>>
    /\ UNCHANGED <<registry, newStatus, keys, pool, sched>>

\* updateStats(): await redis.hmset(`${groupKey}:stats`, stats), the counters
\* of tasks; updateTaskStatus returns and its locals are gone
UpdateStatsHmset(c) ==
    /\ pc[c] = "hmset"
    /\ stats' = ComputeStats(tasks[c])
    /\ got' = [got EXCEPT ![c] = Void]
    /\ pc' = [pc EXCEPT ![c] = "idle"]
    /\ head' = [head EXCEPT ![c] = NoTask]
    /\ newStatus' = [newStatus EXCEPT ![c] = WAITING]
    /\ tasks' = [tasks EXCEPT ![c] = <<>>]
    /\ UNCHANGED <<membership, order, processing, state, options, data, method>>
    /\ UNCHANGED <<clock, looping, ret, hist, conn, attempt, watched, dirty>>
    /\ UNCHANGED <<registry, keys, pool, sched>>

NextStats ==
    \/ \E id \in Tasks : AddTaskQuiet(id)
    \/ \E c \in Callers, id \in Tasks, status \in BulkStatuses : BulkSismember(c, id, status)
    \/ \E c \in Callers : UpdateHset(c)
    \/ \E c \in Callers : UpdateRegistry(c)
    \/ \E c \in Callers : UpdateStatsHgetall(c)
    \/ \E c \in Callers : UpdateStatsHmset(c)

SpecStats == Init /\ [][NextStats]_vars

\* ---------------------------------------------------------- SpecSnapshot
\* One updateTaskStatus() at a time, one await per step, with the HGETALL
\* and the HMSET of updateStats() apart, while removeTask runs between the
\* steps: the state map may have changed since the snapshot was taken.
\* with one call at a time it does not matter which caller runs it
FirstCaller == CHOOSE c \in Callers : \A d \in Callers : c <= d

NextSnapshot ==
    \/ \E id \in Tasks : AddTaskQuiet(id)
    \/ \E id \in Tasks : RemoveTask(id)
    \/ \E id \in Tasks, status \in StatusInputs : UpdateSismember(FirstCaller, id, status)
    \/ \E c \in Callers : UpdateHset(c)
    \/ \E c \in Callers : UpdateRegistry(c)
    \/ \E c \in Callers : UpdateStatsHgetall(c)
    \/ \E c \in Callers : UpdateStatsHmset(c)

SpecSnapshot == Init /\ [][NextSnapshot]_vars

\* ------------------------------------------------------------ SpecReject
\* The calls the group refuses: addTask() with options that lack the id or
\* the queue name, and updateTaskStatus() of an id that is not a member.
\* The group is connected to a QueueManager that has a record of every
\* task, or to none.

\* taskOptions.id and taskOptions.queue: present, or absent (undefined, "")
NoQueue == ""
QueueInputs == {NoQueue, "default"}
TaskIdInputs == Tasks \cup {NoTask}

\* (mutant) an addTask that looks at its options after the SADD
AddTaskOptionsLateCheck(taskId, queueName) ==
    /\ IF taskId = NoTask \/ queueName = NoQueue
       THEN /\ membership' = membership \cup {taskId}
            /\ ret' = Thrown
            /\ UNCHANGED <<order, processing, state, options, data, method, stats>>
            /\ UNCHANGED <<clock, looping, calls, registry>>
       ELSE /\ AddTaskCall(taskId)
            /\ registry' = [x \in DOMAIN registry |->
                               IF x = taskId THEN WAITING ELSE registry[x]]
    /\ UNCHANGED <<hist, newStatus, tasks, keys, pool, sched>>

\* addTask(methodName, taskOptions, taskData): throw when the id or the queue
\* name is missing, else the writes of addTask and task.state = WAITING in
\* the record queueManager.getTask finds
AddTaskOptions(taskId, queueName) ==
    /\ IF taskId = NoTask \/ queueName = NoQueue
       THEN /\ ret' = Thrown
            /\ UNCHANGED <<store, clock, looping, calls, registry>>
       ELSE /\ AddTaskCall(taskId)
            /\ registry' = [x \in DOMAIN registry |->
                               IF x = taskId THEN WAITING ELSE registry[x]]
    /\ UNCHANGED <<hist, newStatus, tasks, keys, pool, sched>>

\* (mutant) an updateTaskStatus that writes the state before it looks at
\* the SISMEMBER reply
UpdateTaskStatusUnchecked(id, status) ==
    /\ state' = SetStatus(state, {id}, status)
    /\ IF id \in membership
       THEN /\ registry' = [x \in DOMAIN registry |->
                               IF x = id THEN MapTaskStatusToState(status)
                               ELSE registry[x]]
            /\ stats' = ComputeStats(state')
            /\ ret' = Void
       ELSE /\ ret' = Thrown
            /\ UNCHANGED <<stats, registry>>
    /\ UNCHANGED <<membership, order, processing, options, data, method>>
    /\ UNCHANGED <<clock, looping, hist, calls>>
    /\ UNCHANGED <<newStatus, tasks, keys, pool, sched>>

\* updateTaskStatus(taskId, status) with no other call in between: throw
\* when SISMEMBER says no, else HSET state, task.state =
\* mapTaskStatusToState(status) in the record, updateStats
UpdateTaskStatusConnected(id, status) ==
    /\ IF id \in membership
       THEN /\ state' = SetStatus(state, {id}, status)
            /\ registry' = [x \in DOMAIN registry |->
                               IF x = id THEN MapTaskStatusToState(status)
                               ELSE registry[x]]
            /\ stats' = ComputeStats(state')
            /\ ret' = Void
       ELSE /\ ret' = Thrown
            /\ UNCHANGED <<state, stats, registry>>
    /\ UNCHANGED <<membership, order, processing, options, data, method>>
    /\ UNCHANGED <<clock, looping, hist, calls>>
    /\ UNCHANGED <<newStatus, tasks, keys, pool, sched>>

NextReject ==
    \/ \E taskId \in TaskIdInputs, queueName \in QueueInputs : AddTaskOptions(taskId, queueName)
    \/ \E id \in Tasks : RemoveTask(id)
    \/ \E id \in Tasks, status \in StatusInputs : UpdateTaskStatusConnected(id, status)

SpecReject == InitUpdate /\ [][NextReject]_vars

\* -------------------------------------------------------------- SpecKeys
\* The names of the store keys the group writes.  A key is the sequence of
\* the segments that the template literals join with ":".
GroupNames == {"g", "emails"}

\* constructor(redis, groupName)
GroupKey(g) == <<"group", g, "tasks">>
StateKey(g) == <<"group", g, "state">>
ProcessingKey(g) == <<"group", g, "processing">>
ProcessingOrderKey(g) == <<"group", g, "order">>

\* `${this.groupKey}:options`, `${this.groupKey}:data`,
\* `${this.groupKey}:method`, `${this.groupKey}:stats`
OptionsKey(g) == GroupKey(g) \o <<"options">>
DataKey(g) == GroupKey(g) \o <<"data">>
MethodKey(g) == GroupKey(g) \o <<"method">>
StatsKey(g) == GroupKey(g) \o <<"stats">>

InitKeys ==
    /\ InitGroup
    /\ registry = <<>>
    /\ newStatus = [c \in Callers |-> WAITING]
    /\ tasks = [c \in Callers |-> <<>>]
    /\ groupName \in GroupNames
    /\ written = {}
    /\ attempts = <<>>
    /\ failedEvents = <<>>
    /\ delays = <<>>
    /\ maxRetries = 0
    /\ queues = <<>>
    /\ weight = <<>>
    /\ rrCursor = 0
    /\ credit = <<>>
    /\ done = <<>>

\* addTask(): SADD, ZADD, HSET state, HSET options, data, method, and the
\* HMSET of updateStats
AddTaskKeys(id) ==
    /\ AddTaskCall(id)
    /\ written' = written \cup {GroupKey(groupName), ProcessingOrderKey(groupName),
                                StateKey(groupName), OptionsKey(groupName),
                                DataKey(groupName), MethodKey(groupName),
                                StatsKey(groupName)}
    /\ UNCHANGED <<hist, update, groupName, pool, sched>>

\* getNextTask(): ZREM and SADD when there is a task
GetNextTaskKeys ==
    /\ GetNextTaskCall
    /\ written' = IF NextTask = NoTask THEN written
                  ELSE written \cup {ProcessingOrderKey(groupName),
                                     ProcessingKey(groupName)}
    /\ UNCHANGED <<hist, update, groupName, pool, sched>>

NextKeys ==
    \/ Tick
    \/ \E id \in Tasks : AddTaskKeys(id)
    \/ GetNextTaskKeys

SpecKeys == InitKeys /\ [][NextKeys]_vars

\* -------------------------------------------------------------- SpecPool
\* The worker pool (section 4.5 of the specification): a slot claims the next
\* due task of the group, runs its handler, and on failure counts the attempt
\* and requeues the task with a backoff, or fails it for good.  The handler
\* succeeds or fails as it likes; time passes while the head is not due.

\* options.retryDelayMs of the tasks, and the cap of the backoff (30 s)
RetryDelayMs == 50
MaxBackoffMs == 30000

\* options.maxRetries
RetryOptions == {2, 3}

\* backoff = retryDelayMs x 2^(attempts-1), capped
Backoff(n) ==
    IF RetryDelayMs * 2^(n - 1) < MaxBackoffMs
    THEN RetryDelayMs * 2^(n - 1)
    ELSE MaxBackoffMs

InitPool ==
    /\ InitGroup
    /\ registry = <<>>
    /\ newStatus = [c \in Callers |-> WAITING]
    /\ tasks = [c \in Callers |-> <<>>]
    /\ groupName = "g"
    /\ written = {}
    /\ attempts = <<>>
    /\ failedEvents = <<>>
    /\ delays = <<>>
    /\ maxRetries \in RetryOptions
    /\ queues = <<>>
    /\ weight = <<>>
    /\ rrCursor = 0
    /\ credit = <<>>
    /\ done = <<>>

\* a task is submitted once: its record starts with attempts = 0, and the
\* group's addTask enters it
Enqueue(id) ==
    /\ id \notin DOMAIN attempts
    /\ AddTaskCall(id)
    /\ attempts' = Hset(attempts, id, 0)
    /\ failedEvents' = Hset(failedEvents, id, 0)
    /\ delays' = Hset(delays, id, <<>>)
    /\ UNCHANGED <<hist, update, keys, maxRetries, sched>>

\* steps 2-5: the head of the order index is due; the slot claims it and
\* finds its record
PoolClaim ==
    /\ NextTask # NoTask
    /\ order[NextTask] <= clock
    /\ ProcessNextTask(TRUE)

\* step 3: nothing is due; the slot sleeps until the head is, and a DELAYED
\* task that is due is WAITING
PoolWait ==
    /\ NextTask # NoTask
    /\ order[NextTask] > clock
    /\ clock' = order[NextTask]
    /\ state' = [id \in DOMAIN state |->
                    IF state[id] = DELAYED /\ id \in DOMAIN order /\ order[id] <= clock'
                    THEN WAITING ELSE state[id]]
    /\ UNCHANGED <<membership, order, processing, options, data, method, stats>>
    /\ UNCHANGED <<looping, ret, hist, calls, aux>>

\* step 7, on success: group.completeTask(id, COMPLETED)
HandlerSucceeds(id) ==
    /\ id \in processing
    /\ id \in DOMAIN state
    /\ state[id] = ACTIVE
    /\ CompleteTask(id)

\* requeueTask(id, delayMs): out of processing, into order with score
\* now + delayMs, state DELAYED when delayMs > 0, else WAITING
RequeueTask(id, delayMs) ==
    /\ processing' = processing \ {id}
    /\ order' = Hset(order, id, clock + delayMs)
    /\ state' = SetStatus(state, {id}, IF delayMs > 0 THEN DELAYED ELSE WAITING)
    /\ stats' = ComputeStats(state')

\* completeTask(id, FAILED)
CompleteFailed(id) ==
    /\ processing' = processing \ {id}
    /\ state' = SetStatus(state, {id}, FAILED)
    /\ stats' = ComputeStats(state')
    /\ order' = order

\* (mutant) a failure handling that allows one retry too many
HandlerFailsOnceMore(id) ==
    /\ id \in processing
    /\ id \in DOMAIN state
    /\ state[id] = ACTIVE
    /\ attempts' = [attempts EXCEPT ![id] = attempts[id] + 1]
    /\ IF attempts'[id] <= maxRetries + 1
       THEN /\ RequeueTask(id, Backoff(attempts'[id]))
            /\ delays' = [delays EXCEPT ![id] = Append(delays[id], Backoff(attempts'[id]))]
            /\ UNCHANGED failedEvents
       ELSE /\ CompleteFailed(id)
            /\ failedEvents' = [failedEvents EXCEPT ![id] = failedEvents[id] + 1]
            /\ UNCHANGED delays
    /\ Touch(order' # order)
    /\ UNCHANGED <<membership, options, data, method, clock, looping, ret, hist, callers>>
    /\ UNCHANGED <<update, keys, maxRetries, sched>>

\* step 8, on failure: increment attempts; requeue with the backoff while
\* attempts <= maxRetries, else completeTask(id, FAILED) and TASK_FAILED
HandlerFails(id) ==
    /\ id \in processing
    /\ id \in DOMAIN state
    /\ state[id] = ACTIVE
    /\ attempts' = [attempts EXCEPT ![id] = attempts[id] + 1]
    /\ IF attempts'[id] <= maxRetries
       THEN /\ RequeueTask(id, Backoff(attempts'[id]))
            /\ delays' = [delays EXCEPT ![id] = Append(delays[id], Backoff(attempts'[id]))]
            /\ UNCHANGED failedEvents
       ELSE /\ CompleteFailed(id)
            /\ failedEvents' = [failedEvents EXCEPT ![id] = failedEvents[id] + 1]
            /\ UNCHANGED delays
    /\ Touch(order' # order)
    /\ UNCHANGED <<membership, options, data, method, clock, looping, ret, hist, callers>>
    /\ UNCHANGED <<update, keys, maxRetries, sched>>

NextPool ==
    \/ \E id \in Tasks : Enqueue(id)
    \/ PoolClaim
    \/ PoolWait
    \/ \E id \in Tasks : HandlerSucceeds(id)
    \/ \E id \in Tasks : HandlerFails(id)

SpecPool == InitPool /\ [][NextPool]_vars

\* ---------------------------------------------------- SpecRR, SpecPriority
\* The scheduler (section 4.4 of the specification) with one worker slot and
\* cap 1 per group: each decision selects a group, whose head the slot claims,
\* runs and completes before the next decision.  The tasks are enqueued
\* before the worker starts; task <<g, i>> is the i-th task of group g.
QueueOf(g, n) == [i \in 1..n |-> <<g, i>>]

\* a group is eligible when its order is non-empty (|processing| = 0 < cap)
Eligible == {g \in Groups : queues[g] # <<>>}

\* the slot claims the head of group g and completes it
Serve(g) ==
    /\ queues' = [queues EXCEPT ![g] = Tail(queues[g])]
    /\ done' = Append(done, Head(queues[g]))

InitRR ==
    /\ InitGroup
    /\ registry = <<>>
    /\ newStatus = [c \in Callers |-> WAITING]
    /\ tasks = [c \in Callers |-> <<>>]
    /\ groupName = "g"
    /\ written = {}
    /\ attempts = <<>>
    /\ failedEvents = <<>>
    /\ delays = <<>>
    /\ maxRetries = 0
    /\ queues \in {[g \in Groups |-> QueueOf(g, len[g])] : len \in [Groups -> 0..MaxQueue]}
    /\ weight = [g \in Groups |-> 1]
    /\ rrCursor = 0
    /\ credit = [g \in Groups |-> 0]
    /\ done = <<>>

\* ROUND_ROBIN: iterate the groups starting after rrCursor, take the first
\* eligible one, advance rrCursor to it
TurnsAway(g) == (g - rrCursor - 1 + MaxGroups) % MaxGroups

RoundRobinChoice ==
    CHOOSE g \in Eligible : \A h \in Eligible : TurnsAway(g) <= TurnsAway(h)

\* (mutant) a round robin that never advances its cursor
SelectRoundRobinStuck ==
    /\ Eligible # {}
    /\ Serve(RoundRobinChoice)
    /\ rrCursor' = rrCursor
    /\ UNCHANGED <<store, clock, looping, ret, hist, calls>>
    /\ UNCHANGED <<update, keys, pool, weight, credit>>

SelectRoundRobin ==
    /\ Eligible # {}
    /\ Serve(RoundRobinChoice)
    /\ rrCursor' = RoundRobinChoice
    /\ UNCHANGED <<store, clock, looping, ret, hist, calls>>
    /\ UNCHANGED <<update, keys, pool, weight, credit>>

NextRR == SelectRoundRobin

SpecRR == InitRR /\ [][NextRR]_vars

\* PRIORITY: groupPriorities of the groups, and the tasks each non-empty group
\* holds (scenario S3)
Weights == {1, 10}
TasksEach == 10

InitPriority ==
    /\ InitGroup
    /\ registry = <<>>
    /\ newStatus = [c \in Callers |-> WAITING]
    /\ tasks = [c \in Callers |-> <<>>]
    /\ groupName = "g"
    /\ written = {}
    /\ attempts = <<>>
    /\ failedEvents = <<>>
    /\ delays = <<>>
    /\ maxRetries = 0
    /\ queues \in {[g \in Groups |-> QueueOf(g, len[g])] : len \in [Groups -> {0, TasksEach}]}
    /\ weight \in [Groups -> Weights]
    /\ rrCursor = 0
    /\ credit = [g \in Groups |-> 0]
    /\ done = <<>>

MaxWeight == CHOOSE w \in Weights : \A g \in Groups : weight[g] <= w /\ \E h \in Groups : weight[h] = w

\* one decision tick: the credit of every eligible group grows by its weight
Credited == [g \in Groups |-> IF g \in Eligible THEN credit[g] + weight[g] ELSE credit[g]]

\* the eligible group with the highest credit wins; the selection is
\* deterministic, a tie going to the first group in name order
HighestCredit(cr) ==
    CHOOSE g \in Eligible :
        \A h \in Eligible : cr[h] < cr[g] \/ (cr[h] = cr[g] /\ g <= h)

\* (mutant) a decision that grows every credit by 1, whatever the weight
SelectPriorityUnweighted ==
    LET plusOne == [g \in Groups |-> IF g \in Eligible THEN credit[g] + 1 ELSE credit[g]]
        winner == HighestCredit(plusOne)
    IN  /\ Eligible # {}
        /\ Serve(winner)
        /\ credit' = [plusOne EXCEPT ![winner] = plusOne[winner] - MaxWeight]
        /\ UNCHANGED <<store, clock, looping, ret, hist, calls>>
        /\ UNCHANGED <<update, keys, pool, weight, rrCursor>>

\* one decision: credits grow, the winner is served and pays max_weight
SelectPriority ==
    LET winner == HighestCredit(Credited)
    IN  /\ Eligible # {}
        /\ Serve(winner)
        /\ credit' = [Credited EXCEPT ![winner] = Credited[winner] - MaxWeight]
        /\ UNCHANGED <<store, clock, looping, ret, hist, calls>>
        /\ UNCHANGED <<update, keys, pool, weight, rrCursor>>

NextPriority == SelectPriority

\* an idle worker slot keeps asking the scheduler
SpecPriority == InitPriority /\ [][NextPriority]_vars /\ WF_vars(NextPriority)

\* ---------------------------------------------------------------- claims
Terminal(status) == status \in {COMPLETED, FAILED}

InOrder(id) == id \in DOMAIN order

\* C1: no task id is returned to two getNextTask callers (every id is added
\* once), whatever connections the callers use.
C1_OneCallerPerId ==
    \A c1 \in Callers, c2 \in Callers :
        (c1 # c2 /\ got[c1].kind = "task") => got[c2] # got[c1]

\* C2: the processing set never holds more ids than the group concurrency
\* cap, whose default is 1.
C2_GroupCap == Cardinality(processing) <= 1

\* C3: every id that was added and is in a non-terminal state is in exactly
\* one of the order index and the processing set.
C3_NoLostTasks ==
    \A id \in membership :
        (id \in DOMAIN state /\ ~Terminal(state[id]))
            => (InOrder(id) /\ id \notin processing)
               \/ (~InOrder(id) /\ id \in processing)

\* C4: a task in a terminal state is in neither the order index nor the
\* processing set (so getNextTask cannot hand it out).
C4_TerminalAbsent ==
    \A id \in DOMAIN state :
        Terminal(state[id]) => ~InOrder(id) /\ id \notin processing

\* C5: of two ids each added once, A by an addTask that completed before the
\* addTask of B started, getNextTask does not return B unless it returned A
\* before.
Positions(seq, id) == {i \in 1..Len(seq) : seq[i] = id}

AddedOnce(id) == Cardinality(Positions(addSeq, id)) = 1

AddedBefore(a, b) ==
    /\ AddedOnce(a)
    /\ AddedOnce(b)
    /\ \E i \in Positions(addSeq, a), j \in Positions(addSeq, b) : i < j

C5_ArrivalOrder ==
    \A a \in Tasks, b \in Tasks :
        (AddedBefore(a, b) /\ Positions(claimSeq, b) # {})
            => \E i \in Positions(claimSeq, a) :
                   \A j \in Positions(claimSeq, b) : i < j

\* C6: an id in the processing set always has per-task state ACTIVE.
C6_ClaimAtomic ==
    \A id \in processing : id \in DOMAIN state /\ state[id] = ACTIVE

\* C7: a per-task state that is COMPLETED or FAILED is never changed to a
\* non-terminal state by a later operation.
C7_TerminalStays ==
    [][\A id \in DOMAIN state \cap DOMAIN state' :
          Terminal(state[id]) => Terminal(state'[id])]_vars

\* C8: a task whose state is ACTIVE is in the processing set.
C8_ActiveInProcessing ==
    \A id \in DOMAIN state : state[id] = ACTIVE => id \in processing

\* C9: addTask of an id that was added before leaves the membership set and
\* the order index, positions included, as they were.
C9_IdempotentAdd ==
    [][\A id \in Tasks :
          (id \in membership /\ AddTask(id))
              => membership' = membership /\ ZrangeAll(order') = ZrangeAll(order)]_vars

\* C10: no task whose state is PAUSED, COMPLETED or FAILED is moved to the
\* processing set.
C10_ClaimNotPausedOrTerminal ==
    [][\A id \in processing' \ processing :
          id \in DOMAIN state => state[id] \notin {PAUSED, COMPLETED, FAILED}]_vars

C12_EmptyOrderNull ==
    [][(DOMAIN order = {} /\ GetNextTask)
          => /\ ret' = RetNull
             /\ UNCHANGED <<membership, order, processing, state>>]_vars

C12_NullOnEmpty ==
    /\ ret = RetNull
    /\ DOMAIN order = {}
    /\ membership # {}
    /\ processing = {}

\* C13: completeTask(id) of a member takes id out of the processing set, sets
\* its state to the terminal outcome (COMPLETED, the one outcome the method
\* has), recomputes the cached stats, and leaves the order index as it was.
C13_CompleteFrame ==
    [][\A id \in Tasks :
          (id \in membership /\ CompleteTask(id))
              => /\ processing' = processing \ {id}
                 /\ state'[id] = COMPLETED
                 /\ stats' = ComputeStats(state')
                 /\ order' = order]_vars

C13_Completed ==
    \E id \in membership :
        /\ ret = Void
        /\ state[id] = COMPLETED
        /\ id \notin processing
        /\ ~InOrder(id)
        /\ stats = ComputeStats(state)
        /\ stats.completed >= 1

\* The postcondition of addTask(id): id is a member, is in the order index,
\* has state WAITING, and the cached stats count it in total.
AddedAndCounted(id) ==
    /\ id \in membership
    /\ id \in DOMAIN order
    /\ id \in DOMAIN state
    /\ state[id] = WAITING
    /\ stats.total = Cardinality(DOMAIN state)
    /\ stats.total >= 1

\* C14: when addTask(id) has returned, with no other operation meanwhile, id
\* is a member, is in the order index, has state WAITING, and the cached
\* stats count it in total.
C14_AddPost ==
    [][\A id \in Tasks : AddedAndCounted(id)' \/ ~AddTask(id)]_vars

C14_Added ==
    \E id \in membership :
        /\ ret = Void
        /\ InOrder(id)
        /\ state[id] = WAITING
        /\ stats.total = Cardinality(DOMAIN state)
        /\ stats.total = MaxTasks

\* C15: pauseAll leaves the state of every task that is ACTIVE, COMPLETED or
\* FAILED as it was.
C15_PauseSparesActiveAndTerminal ==
    [][PauseAll
          => \A id \in DOMAIN state :
                 state[id] \in {ACTIVE, COMPLETED, FAILED} => state'[id] = state[id]]_vars

\* C16: resumeAll moves every PAUSED task to WAITING and leaves the state of
\* every other task as it was.
C16_ResumeToWaiting ==
    [][ResumeAll
          => \A id \in DOMAIN state :
                 state'[id] = IF state[id] = PAUSED THEN WAITING ELSE state[id]]_vars

\* C17: pauseAll and resumeAll leave the membership set, the order index with
\* its scores, and the processing set as they were.
C17_BulkFrame ==
    [][(PauseAll \/ ResumeAll) => UNCHANGED <<membership, order, processing>>]_vars

C17_PausedInPlace ==
    /\ ret = Void
    /\ membership # {}
    /\ \A id \in membership : state[id] = PAUSED
    /\ DOMAIN order # {}
    /\ processing # {}
    /\ stats.paused = Cardinality(membership)

\* C20: getStats returns the counters recomputed from the current per-task
\* states, also after removeTask.
C20_StatsFresh ==
    [][GetStats => stats' = ComputeStats(state)]_vars

\* C18: under any interleaving of addTask, removeTask, getNextTask and
\* completeTask, every id of the processing set is a member of the group.
C18_ProcessingInMembership == processing \subseteq membership

\* C19: every id of the membership set has a per-task state, also between
\* the store commands of an addTask in progress.
C19_MemberHasState == \A id \in membership : id \in DOMAIN state

\* C21: for each of the seven states, the state updateTaskStatus writes to
\* the task's registry record is the state it wrote to the group's state map.
C21_SameStateInRegistry ==
    [][\A c \in Callers :
          (UpdateRegistry(c) /\ head[c] \in DOMAIN registry)
              => registry'[head[c]] = newStatus[c]]_vars

\* C30: however updateTaskStatus and removeTask interleave, every id with an
\* entry in the state map is a member of the group.
C30_StateOnlyOfMembers == DOMAIN state \subseteq membership

\* C22: for every group name g, the keys the group writes are group:{g}:tasks,
\* group:{g}:order, group:{g}:processing, group:{g}:state, group:{g}:options,
\* group:{g}:data, group:{g}:method and group:{g}:stats, and no other.
C22_KeysOfGroup ==
    written \subseteq {<<"group", groupName, suffix>> :
                          suffix \in {"tasks", "order", "processing", "state",
                                      "options", "data", "method", "stats"}}

\* C27: startProcessing terminates: while its loop runs and the order index
\* is empty, hasAvailableTasks() is false, so the loop exits, also when the
\* group has members that were completed earlier.
C27_LoopExitsOnEmptyOrder ==
    (looping /\ DOMAIN order = {}) => ~HasAvailableTasksResult

\* C28: a getNextTask that returns null has moved no task: the order index
\* and the processing set are as they were, also when an addTask has put the
\* id into the order index and not yet stored its options and data.
C28_NullMovesNothing ==
    [][(GetNextTask /\ ret' = RetNull) => UNCHANGED <<order, processing>>]_vars

\* C29: a task that processNextTask claimed and did not dispatch (no registry
\* record, or updateTaskStatus threw) is not left in the processing set: what
\* processNextTask leaves there, it has made ACTIVE.
C29_ClaimedIsDispatched ==
    [][\A found \in BOOLEAN :
          ProcessNextTask(found)
              => \A id \in processing' \ processing :
                     id \in DOMAIN state' /\ state'[id] = ACTIVE]_vars

C24_FailTwiceThenSucceed ==
    \A id \in DOMAIN attempts :
        (maxRetries = 3 /\ state[id] = COMPLETED /\ Len(delays[id]) = 2)
            => attempts[id] = 3 /\ delays[id] = <<50, 100>>

\* C25: ROUND_ROBIN with one worker serves the groups in turn, skipping empty
\* groups without a turn: the i-th tasks of the groups complete before any
\* (i+1)-th task, in group order, and no task is passed over; with x1, x2 in
\* X and y1, y2 in Y the completion order is x1, y1, x2, y2.
GroupOf(task) == task[1]
IndexOf(task) == task[2]
Completed == {done[i] : i \in 1..Len(done)}
Enqueued(g) ==
    {queues[g][i] : i \in 1..Len(queues[g])} \cup {t \in Completed : GroupOf(t) = g}
TurnBefore(a, b) ==
    \/ IndexOf(a) < IndexOf(b)
    \/ IndexOf(a) = IndexOf(b) /\ GroupOf(a) < GroupOf(b)

C25_RoundRobinTurns ==
    /\ \A i \in 1..Len(done), j \in 1..Len(done) :
           i < j => TurnBefore(done[i], done[j])
    /\ \A t \in Completed, g \in Groups :
           \A u \in Enqueued(g) : TurnBefore(u, t) => u \in Completed

C25_Interleaved ==
    /\ done = <<<<1, 1>>, <<2, 1>>, <<1, 2>>, <<2, 2>>>>
    /\ Eligible = {}

\* C26: PRIORITY with vip (weight 10) and reg (weight 1) holding ten tasks
\* each: of the first 11 completions 10 are vip's and 1 is reg's; and every
\* group with a waiting task is eventually selected.
CompletedOf(g, n) == Cardinality({i \in 1..n : GroupOf(done[i]) = g})

ScenarioS3(vip, reg) ==
    /\ vip # reg
    /\ weight[vip] = 10
    /\ weight[reg] = 1
    /\ Cardinality(Enqueued(vip)) = TasksEach
    /\ Cardinality(Enqueued(reg)) = TasksEach
    /\ \A g \in Groups \ {vip, reg} : Enqueued(g) = {}

C31_StatsOfFinalStates ==
    ((\A c \in Callers : pc[c] = "idle") /\ stats # NoStats)
        => stats = ComputeStats(state)

\* C32: with claimers that keep calling getNextTask, fairly scheduled, and
\* each task added once, every task addTask placed in the order index is
\* eventually out of it and in processing.
C32_EventuallyClaimed ==
    \A id \in Tasks :
        (id \in DOMAIN order) ~> (id \notin DOMAIN order /\ id \in processing)

\* every task was added and claimed, after a claimer lost an EXEC to another
C32_AllClaimed ==
    /\ processing = Tasks
    /\ DOMAIN order = {}
    /\ \E c \in Callers : attempt[c] > 1

\* C33: hasAvailableTasks returns true exactly when the order index holds a
\* task, that is exactly when a getNextTask that follows with nothing in
\* between returns a task.
C33_AvailableIffQueued ==
    [][HasAvailableTasks
          => /\ ret' = RetBool(DOMAIN order # {})
             /\ ret' = RetBool(GetNextTaskResult.kind = "task")]_vars

\* C34: after removeTask(id) no trace of id remains: id is out of membership,
\* order, processing and the state map, and its options, data and method are
\* gone, so that getTaskOptionsAndData(id) is null.
C34_RemovedLeavesNoTrace ==
    [][\A id \in Tasks :
          RemoveTask(id)
              => /\ id \notin membership'
                 /\ id \notin DOMAIN order'
                 /\ id \notin processing'
                 /\ id \notin DOMAIN state'
                 /\ id \notin options' \cup data' \cup method'
                 /\ ~GetTaskOptionsAndData(id)']_vars

\* C37: every stats record the group writes to the cache has active +
\* completed + failed + paused <= total, and its total is the number of
\* entries of the state-map snapshot it was computed from.
C37_CountersWithinTotal ==
    [][\A c \in Callers :
          UpdateStatsHmset(c)
              => /\ stats'.total = Cardinality(DOMAIN tasks[c])
                 /\ stats'.active + stats'.completed + stats'.failed + stats'.paused
                        <= stats'.total]_vars

\* a record was written from a snapshot the state map has moved away from,
\* with a task of every counted status but one and a task counted in total only
C37_StaleSnapshotWritten ==
    /\ stats # NoStats
    /\ stats.total = MaxTasks
    /\ stats.total # Cardinality(DOMAIN state)
    /\ stats.active + stats.completed + stats.failed + stats.paused = stats.total - 1

\* C35: updateTaskStatus(id, s) of an id that is not a member fails with an
\* error and leaves the state map, the cached stats and the registry record
\* as they were.
C35_NonMemberRejected ==
    [][\A id \in Tasks, status \in StatusInputs :
          (id \notin membership /\ UpdateTaskStatusConnected(id, status))
              => /\ ret' = Thrown
                 /\ UNCHANGED <<state, stats, registry>>]_vars

\* an update was refused in a group that has a task, stats and records, and
\* an earlier update of a member has reached its record
C35_RefusedAmongTasks ==
    /\ ret = Thrown
    /\ membership # {} /\ membership # Tasks
    /\ stats # NoStats
    /\ \E id \in DOMAIN registry : registry[id] # WAITING

\* C36: addTask with options that lack the task id or the queue name fails
\* with an error before any write: membership, order, state map, the options,
\* data and method maps and the stats are unchanged.
C36_InvalidOptionsRejected ==
    [][\A taskId \in TaskIdInputs, queueName \in QueueInputs :
          ((taskId = NoTask \/ queueName = NoQueue) /\ AddTaskOptions(taskId, queueName))
              => /\ ret' = Thrown
                 /\ UNCHANGED <<membership, order, state, options, data, method, stats>>]_vars

\* an addTask was refused in a group that has tasks
C36_RefusedAmongTasks ==
    /\ ret = Thrown
    /\ membership # {}
    /\ DOMAIN order # {}

====
